---- MODULE Spec2Model ----
(***************************************************************************)
(* Multi-Agent-Productivity-Platform: the MCP broker (src/mcp-server),     *)
(* its client transport (src/backend/services/mcp_client.py), the agent    *)
(* coordinator (agent_manager.py) and the executor's workflow engine       *)
(* (src/backend/agents/executor_agent.py), as state machines.              *)
(*                                                                         *)
(* Each component has its own variables and its own specification; a       *)
(* specification leaves the other components' variables unchanged.         *)
(***************************************************************************)
EXTENDS Naturals, Integers, Sequences, FiniteSets, TLC

VARIABLES
    \* ---- broker (MCPServer) ----
    srv_is_running,   \* MCPServer.is_running
    clients,          \* MCPServer.clients: insertion-ordered dict, a sequence of [id, ws]
    message_handlers, \* MCPServer.message_handlers: the types with a handler
    message_queue,    \* MCPServer.message_queue: FIFO of [n, msg, frame_id,
                      \* frame_correlation_id]
    connState,        \* per websocket handle: "free" | "open" | "closed"
    connId,           \* per websocket handle: the client_id local of its _handle_client
    pc,               \* the consumer loop: "idle" | "routing"
    current,          \* the entry the consumer dequeued and is routing
    connects,         \* history: number of connections accepted so far
    arrivals,         \* history: number of envelopes enqueued so far
    dropped,          \* history: number of frames dropped by _process_message
    trace,            \* history: <<"begin", n>> / <<"end", n>> of the consumer
    lastRoute         \* history: the last _route_message: the envelope's number and
                      \* type, whether it had a destination and whether that was a
                      \* registry key, the registry's size, and the send() calls made

VARIABLES
    \* ---- client transport (MCPClient) ----
    is_connected,     \* MCPClient.is_connected
    websocket,        \* MCPClient.websocket: "none" | "open" | "closed"
    cli_handlers,     \* MCPClient.message_handlers: the types with a handler
    pending_messages, \* MCPClient.pending_messages: message id -> the call owning the future
    calls,            \* the send_message calls made so far, each with its future's state
    loop_time,        \* asyncio.get_event_loop().time(), in ticks
    inbound,          \* history: number of frames the read loop has processed
    lastInbound       \* history: the last frame _process_message saw and what it did

VARIABLES
    \* ---- execution engine (ExecutorAgent.execute_workflow) ----
    exec_status,      \* execution_context["status"]; "none" before the call
    plan,             \* workflow_plan["tasks"]: the task ids, in order
    task_index,       \* the loop's i
    epc,              \* where execute_workflow stands
    completed_tasks,  \* execution_context["completed_tasks"]
    failed_tasks,     \* execution_context["failed_tasks"]
    task_result,      \* the task_result handed to _handle_task_failure
    progress,         \* execution_context["progress"], the fraction num/den
    report,           \* the execution report, once generated
    exec_error,       \* execution_context["error"]; "none" while the key is absent
    end_time,         \* whether execution_context["end_time"] has been written
    attempts,         \* history: per position, the status of each _execute_single_task
    backoffs          \* history: the sleeps of _handle_task_failure, [pos, delay]

engineVars == <<exec_status, plan, task_index, epc, completed_tasks, failed_tasks,
                task_result, progress, report, exec_error, end_time, attempts, backoffs>>

VARIABLES
    \* ---- coordinator (AgentManager) and the observer it starts ----
    mgr_variant,      \* which AgentManager was constructed: "none" | "services" | "agents"
    mgr_is_running,   \* AgentManager.is_running
    obs_is_running,   \* ObserverAgent.is_running
    montasks,         \* the groups of monitoring tasks created so far, each
                      \* "running" | "cancelling" | "cancelled" | "done"
    monitoring_tasks, \* ObserverAgent.monitoring_tasks: the group it holds, 0 when empty
    monitors,         \* the start_monitoring invocations: [pc, gen]
    coordCalls,       \* history: the start_all_agents / stop_all_agents calls
    obs_calls         \* history: how often the observer was asked to start and to stop

coordVars == <<mgr_variant, mgr_is_running, obs_is_running, montasks, monitoring_tasks,
               monitors, coordCalls, obs_calls>>

VARIABLES
    \* ---- an envelope on its way through the broker's wire format ----
    wire_env,         \* the envelope (an MCPMessage)
    wire_frame,       \* the frame _send_to_client serialized it to
    wire_back,        \* the MCPMessage _process_message parsed the frame into
    wire_pc           \* "envelope" | "frame" | "parsed"

wireVars == <<wire_env, wire_frame, wire_back, wire_pc>>

VARIABLES
    \* ---- MCPServer.send_message called on the broker ----
    lastSend          \* history: the last call: its number, destination and clock
                      \* reading, the send() calls it made, and the id it returned

sendVars == <<lastSend>>

VARIABLES
    \* ---- AgentManager.initialize_agents and get_system_status ----
    agent_initialized, \* the agents whose initialize() has completed
    exec_loops,        \* the _execution_loop tasks ExecutorAgent.initialize has created
    initCalls,         \* history: the initialize_agents calls
    lastStatus         \* history: the last get_system_status call and what it returned

initVars == <<agent_initialized, exec_loops, initCalls, lastStatus>>

VARIABLES
    \* ---- MCPServer.stop ----
    stop_pc,          \* where stop() stands: "none" | "closing" | "done" | "raised"
    di_used,          \* the size of self.clients when the items() iterator was made
    stop_pos,         \* the number of entries the iterator has yielded
    stop_registered,  \* history: the websockets registered when stop() was called
    stop_closed       \* history: the websockets stop() has called close() on

stopVars == <<stop_pc, di_used, stop_pos, stop_registered, stop_closed>>

clientVars == <<is_connected, websocket, cli_handlers, pending_messages, calls,
                loop_time, inbound, lastInbound>>

brokerVars == <<srv_is_running, clients, message_handlers, message_queue,
                connState, connId, pc, current, connects, arrivals, dropped, trace,
                lastRoute>>

vars == <<brokerVars, clientVars, engineVars, coordVars, wireVars, sendVars, initVars,
          stopVars>>

\* what a component's actions leave unchanged: the other components
notBroker == <<clientVars, engineVars, coordVars, wireVars, sendVars, initVars,
               stopVars>>
notClient == <<brokerVars, engineVars, coordVars, wireVars, sendVars, initVars,
               stopVars>>
notEngine == <<brokerVars, clientVars, coordVars, wireVars, sendVars, initVars,
               stopVars>>
notCoord == <<brokerVars, clientVars, engineVars, wireVars, sendVars, initVars,
              stopVars>>
notWire == <<brokerVars, clientVars, engineVars, coordVars, sendVars, initVars,
             stopVars>>

(***************************************************************************)
(* Bounds of the model.                                                    *)
(***************************************************************************)
NumConns == 3
MaxTime == 0
MaxMsgs == 2
MaxConnects == 3
MaxCalls == 2
MaxInbound == 2
MaxLoopTime == 3
MaxTasks == 3
MaxOps == 4
MaxSends == 2
MaxInits == 2
MaxStatus == 1
\* connections followed when the consumer's progress is checked
LiveConns == 2

Conn == 1..NumConns
\* datetime.now(), in ticks: '%H%M%S' wraps every day, so any reading may follow any
Time == 0..MaxTime

(***************************************************************************)
(* Identities.  A broker-assigned identity "client_<seq>_<HHMMSS>" is the  *)
(* triple <<"client", seq, ts>>; a fixed name such as "planner_agent" is   *)
(* <<name, 0, 0>>; Python's None is NoneId.                                *)
(***************************************************************************)
Name(s) == <<s, 0, 0>>
NoneId == Name("None")
ClientId(seq, ts) == <<"client", seq, ts>>
GenMsgId(t) == <<"msg", t>>
IsoTime(t) == <<"iso", t>>
EmptyDict == [dict |-> TRUE, workflow_id |-> "absent", task_id |-> "absent", type |-> "absent"]

\* Python truthiness of an Optional[str] destination: None and "" are falsy
Truthy(d) == d # NoneId /\ d # Name("")

(***************************************************************************)
(* The registry dict, in insertion order.                                  *)
(***************************************************************************)
Ids(reg) == [i \in 1..Len(reg) |-> reg[i].id]
InClients(reg, id) == \E i \in 1..Len(reg) : reg[i].id = id
ClientsGet(reg, id) == reg[CHOOSE i \in 1..Len(reg) : reg[i].id = id].ws
ClientsPut(reg, id, ws) ==
    IF InClients(reg, id)
    THEN [i \in 1..Len(reg) |-> IF reg[i].id = id THEN [id |-> id, ws |-> ws] ELSE reg[i]]
    ELSE Append(reg, [id |-> id, ws |-> ws])
ClientsPop(reg, id) == SelectSeq(reg, LAMBDA e : e.id # id)

(***************************************************************************)
(* Wire frames: a JSON object is a record with the set of keys it holds;   *)
(* an absent key's field holds a filler that no reader looks at.           *)
(***************************************************************************)
WireKeys == {"id", "type", "source", "data", "timestamp", "correlation_id"}

Serialize_NoCorrelation(message) ==
    [json |-> TRUE, keys |-> WireKeys,
     id |-> message.id, type |-> message.type, source |-> message.source,
     destination |-> NoneId, data |-> message.data,
     timestamp |-> message.timestamp, correlation_id |-> NoneId]

\* json.dumps({...}) in _send_to_client / _broadcast_message
Serialize(message) ==
    [json |-> TRUE, keys |-> WireKeys,
     id |-> message.id, type |-> message.type, source |-> message.source,
     destination |-> NoneId, data |-> message.data,
     timestamp |-> message.timestamp, correlation_id |-> message.correlation_id]

\* MCPMessage(...) built from json.loads(message) in _process_message
ParseFrame(client_id, f, t) ==
    [id |-> IF "id" \in f.keys THEN f.id ELSE GenMsgId(t),
     type |-> IF "type" \in f.keys THEN f.type ELSE "unknown",
     source |-> client_id,
     destination |-> IF "destination" \in f.keys THEN f.destination ELSE NoneId,
     data |-> IF "data" \in f.keys THEN f.data ELSE EmptyDict,
     timestamp |-> IF "timestamp" \in f.keys THEN f.timestamp ELSE IsoTime(t),
     correlation_id |-> IF "correlation_id" \in f.keys THEN f.correlation_id ELSE NoneId]

(***************************************************************************)
(* Broker routing.  A routing step threads st: the registry, the sequence  *)
(* of websocket send() calls made so far, how often a registered handler   *)
(* and the default handler were invoked, whether the handler raised, and   *)
(* what send_message returned.                                             *)
(***************************************************************************)
NewRouting(reg) ==
    [clients |-> reg, sends |-> <<>>, handler_calls |-> 0, default_calls |-> 0,
     raised |-> FALSE, returned |-> NoneId]

SendToClient_NoHeal(st, client_id, message) ==
    IF InClients(st.clients, client_id)
    THEN LET ws == ClientsGet(st.clients, client_id)
         IN  [st EXCEPT !.sends = Append(@, [ws |-> ws, ok |-> connState[ws] = "open",
                                             frame |-> Serialize(message)])]
    ELSE st

\* MCPServer._send_to_client: send() raises on a closed websocket
SendToClient(st, client_id, message) ==
    IF InClients(st.clients, client_id)
    THEN LET ws == ClientsGet(st.clients, client_id)
             ok == connState[ws] = "open"
         IN  [st EXCEPT !.clients = IF ok THEN @ ELSE ClientsPop(@, client_id),
                        !.sends = Append(@, [ws |-> ws, ok |-> ok,
                                             frame |-> Serialize(message)])]
    ELSE st

RECURSIVE SendEach(_, _, _)
\* asyncio.gather(*tasks): the _send_to_client tasks run in the order they were made
SendEach(st, targets, message) ==
    IF targets = <<>> THEN st
    ELSE SendEach(SendToClient(st, Head(targets), message), Tail(targets), message)

BroadcastMessage_ToAll(st, message) ==
    IF st.clients = <<>> THEN st ELSE SendEach(st, Ids(st.clients), message)

\* MCPServer._broadcast_message
BroadcastMessage(st, message) ==
    IF st.clients = <<>> THEN st
    ELSE SendEach(st, SelectSeq(Ids(st.clients), LAMBDA id : id # message.source), message)

DefaultMessageHandler_NoUnicast(st, message) == BroadcastMessage(st, message)

DefaultMessageHandler_NoFallback(st, message) ==
    IF Truthy(message.destination)
    THEN SendToClient(st, message.destination, message)
    ELSE BroadcastMessage(st, message)

\* MCPServer._default_message_handler
DefaultMessageHandler(st, message) ==
    IF Truthy(message.destination) /\ InClients(st.clients, message.destination)
    THEN SendToClient(st, message.destination, message)
    ELSE BroadcastMessage(st, message)

\* MCPServer.send_message: the broker-originated envelope it builds
BrokerEnvelope(t, message_type, data, destination, correlation_id) ==
    [id |-> GenMsgId(t), type |-> message_type,
     source |-> Name("mcp_server"), destination |-> destination,
     data |-> data, timestamp |-> IsoTime(t),
     correlation_id |-> correlation_id]

\* MCPServer.send_message: routes the envelope and returns message_id
ServerSendMessage(st, t, message_type, data, destination, correlation_id) ==
    LET message == BrokerEnvelope(t, message_type, data, destination, correlation_id)
        sent == IF Truthy(destination)
                THEN SendToClient(st, destination, message)
                ELSE BroadcastMessage(st, message)
    IN  [sent EXCEPT !.returned = GenMsgId(t)]

\* AgentMessageHandlers._register_handlers
HandlerTypes == {"workflow_request", "task_execution", "alert", "event",
                 "execution_result", "agent_status"}

\* AgentMessageHandlers._handle_*: message.data.get(...) raises when data is
\* no dict, and _route_message swallows it
HandlerRun(st, t, message) ==
    IF ~message.data.dict THEN [st EXCEPT !.raised = TRUE]
    ELSE CASE message.type = "workflow_request" ->
                ServerSendMessage(st, t, "plan_workflow", message.data, Name("planner_agent"), NoneId)
           [] message.type = "task_execution" ->
                ServerSendMessage(st, t, "execute_task", message.data, Name("executor_agent"), NoneId)
           [] message.type = "alert" ->
                ServerSendMessage(st, t, "alert_notification", message.data, NoneId, NoneId)
           [] message.type = "event" ->
                IF message.data.type \in {"system_health", "performance_issue"}
                THEN ServerSendMessage(st, t, "system_event", message.data, Name("planner_agent"), NoneId)
                ELSE IF message.data.type \in {"task_completion", "workflow_progress"}
                THEN ServerSendMessage(st, t, "progress_update", message.data, Name("observer_agent"), NoneId)
                ELSE st
           [] message.type = "execution_result" ->
                ServerSendMessage(st, t, "execution_complete", message.data, Name("observer_agent"), NoneId)
           [] OTHER -> st

RouteMessage_Both(st, t, message) ==
    IF message.type \in message_handlers
    THEN DefaultMessageHandler(
             [HandlerRun([st EXCEPT !.handler_calls = @ + 1], t, message)
                 EXCEPT !.default_calls = @ + 1], message)
    ELSE DefaultMessageHandler([st EXCEPT !.default_calls = @ + 1], message)

\* MCPServer._route_message
RouteMessage(st, t, message) ==
    IF message.type \in message_handlers
    THEN HandlerRun([st EXCEPT !.handler_calls = @ + 1], t, message)
    ELSE DefaultMessageHandler([st EXCEPT !.default_calls = @ + 1], message)

(***************************************************************************)
(* Frames the broker's clients send.                                       *)
(***************************************************************************)
Payload(w) == [dict |-> TRUE, workflow_id |-> w, task_id |-> w, type |-> "task_completion"]
NotADict == [dict |-> FALSE, workflow_id |-> "absent", task_id |-> "absent", type |-> "absent"]
FrameKeys == WireKeys \cup {"destination"}
Malformed ==
    [json |-> FALSE, keys |-> {}, id |-> NoneId, type |-> "unknown", source |-> NoneId,
     destination |-> NoneId, data |-> EmptyDict, timestamp |-> IsoTime(0),
     correlation_id |-> NoneId]
ClientFrame(k, message_type, destination) ==
    [json |-> TRUE, keys |-> FrameKeys, id |-> <<"m", k>>, type |-> message_type,
     source |-> Name("client"), destination |-> destination, data |-> Payload("w1"),
     timestamp |-> IsoTime(0),
     correlation_id |-> IF k = 1 THEN NoneId ELSE <<"k", k>>]
Destinations(reg) == {NoneId, Name("planner_agent")} \cup {reg[i].id : i \in 1..Len(reg)}
\* the k-th frame the broker reads carries the id m_k
InFrames(reg, k) ==
    {Malformed, ClientFrame(k, "workflow_request", Name("planner_agent")),
     ClientFrame(k, "task_execution", Name("executor_agent")),
     ClientFrame(k, "alert", NoneId),
     [ClientFrame(k, "event", NoneId) EXCEPT !.data = NotADict]}
    \cup {ClientFrame(k, "status", d) : d \in Destinations(reg)}

NoMsg ==
    [id |-> NoneId, type |-> "unknown", source |-> NoneId, destination |-> NoneId,
     data |-> EmptyDict, timestamp |-> IsoTime(0), correlation_id |-> NoneId]
\* a queue entry: the envelope, its arrival number, and the id and correlation_id
\* of the frame it was parsed from
NoEntry == [n |-> 0, msg |-> NoMsg, frame_id |-> NoneId, frame_correlation_id |-> NoneId]
NoInbound == [n |-> 0, id |-> NoneId, type |-> "unknown", late |-> FALSE, path |-> "none"]
NoRoute ==
    [n |-> 0, type |-> "unknown", addressed |-> FALSE, unicast |-> FALSE, nreg |-> 0,
     handler_calls |-> 0, default_calls |-> 0, raised |-> FALSE, sends |-> <<>>]

(***************************************************************************)
(* asyncio.Queue: put appends, get takes the head.                         *)
(***************************************************************************)
QueuePut_Front(q, e) == <<e>> \o q
QueuePut(q, e) == Append(q, e)
QueueGet(q) == Head(q)

(***************************************************************************)
(* Broker actions.                                                         *)
(***************************************************************************)
\* MCPServer.start: the consumer task is created and connections are accepted
Start ==
    /\ ~srv_is_running /\ pc = "stopped"
    /\ srv_is_running' = TRUE
    /\ pc' = "idle"
    /\ UNCHANGED <<clients, message_handlers, message_queue, connState, connId,
                   current, connects, arrivals, dropped, trace, lastRoute>>
    /\ UNCHANGED notBroker

\* MCPServer._handle_client, up to the read loop.  A new connection takes the
\* lowest free handle: handles only name websocket objects.
Connect(c, t) ==
    /\ srv_is_running /\ connState[c] = "free"
    /\ connects < MaxConnects
    /\ connects' = connects + 1
    /\ \A d \in Conn : d < c => connState[d] # "free"
    /\ LET client_id == ClientId(Len(clients) + 1, t)
       IN  /\ clients' = ClientsPut(clients, client_id, c)
           /\ connId' = [connId EXCEPT ![c] = client_id]
    /\ connState' = [connState EXCEPT ![c] = "open"]
    /\ UNCHANGED <<srv_is_running, message_handlers, message_queue, pc, current,
                   arrivals, dropped, trace, lastRoute>>
    /\ UNCHANGED notBroker

\* the peer or the network closes the websocket
CloseConn(c) ==
    /\ connState[c] = "open"
    /\ connState' = [connState EXCEPT ![c] = "closed"]
    /\ UNCHANGED <<srv_is_running, clients, message_handlers, message_queue, connId,
                   pc, current, connects, arrivals, dropped, trace, lastRoute>>
    /\ UNCHANGED notBroker

\* MCPServer._handle_client: ConnectionClosed ends the read loop, finally pops
HandlerExit(c) ==
    /\ connState[c] = "closed"
    /\ clients' = ClientsPop(clients, connId[c])
    /\ connState' = [connState EXCEPT ![c] = "free"]
    /\ connId' = [connId EXCEPT ![c] = NoneId]
    /\ UNCHANGED <<srv_is_running, message_handlers, message_queue, pc, current,
                   connects, arrivals, dropped, trace, lastRoute>>
    /\ UNCHANGED notBroker

JsonLoads_Any(f) == TRUE
\* json.loads(message) returns; otherwise it raises and _process_message logs
JsonLoads(f) == f.json

\* MCPServer._process_message
ProcessMessage(c, f, t) ==
    /\ connState[c] = "open"
    /\ arrivals + dropped < MaxMsgs
    /\ IF JsonLoads(f)
       THEN /\ message_queue' = QueuePut(message_queue,
                    [n |-> arrivals + 1, msg |-> ParseFrame(connId[c], f, t),
                     frame_id |-> f.id, frame_correlation_id |-> f.correlation_id])
            /\ arrivals' = arrivals + 1
            /\ UNCHANGED dropped
       ELSE /\ dropped' = dropped + 1
            /\ UNCHANGED <<message_queue, arrivals>>
    /\ UNCHANGED <<srv_is_running, clients, message_handlers, connState, connId, pc,
                   current, connects, trace, lastRoute>>
    /\ UNCHANGED notBroker

\* MCPServer._message_processing_loop: message = await queue.get()
Dequeue ==
    /\ srv_is_running /\ pc = "idle" /\ message_queue # <<>>
    /\ current' = QueueGet(message_queue)
    /\ message_queue' = Tail(message_queue)
    /\ pc' = "routing"
    /\ trace' = Append(trace, <<"begin", QueueGet(message_queue).n>>)
    /\ UNCHANGED <<srv_is_running, clients, message_handlers, connState, connId,
                   connects, arrivals, dropped, lastRoute>>
    /\ UNCHANGED notBroker

LoopAfter_Stop(raised) == IF raised THEN "dead" ELSE "idle"
\* MCPServer._message_processing_loop: the try / except Exception inside the while
\* loop: an error of _route_message is logged, and the loop goes on
LoopAfter(raised) == "idle"

\* MCPServer._message_processing_loop: await self._route_message(message)
Route(t) ==
    /\ pc = "routing"
    /\ LET st == RouteMessage(NewRouting(clients), t, current.msg)
       IN  /\ clients' = st.clients
           /\ lastRoute' = [n |-> current.n, type |-> current.msg.type,
                            addressed |-> Truthy(current.msg.destination),
                            unicast |-> InClients(clients, current.msg.destination),
                            nreg |-> Len(clients),
                            handler_calls |-> st.handler_calls,
                            default_calls |-> st.default_calls,
                            raised |-> st.raised,
                            sends |-> [i \in 1..Len(st.sends) |->
                                        [ws |-> st.sends[i].ws, ok |-> st.sends[i].ok,
                                         id |-> st.sends[i].frame.id,
                                         correlation_id |->
                                             st.sends[i].frame.correlation_id]]]
    /\ trace' = Append(trace, <<"end", current.n>>)
    /\ pc' = LoopAfter(RouteMessage(NewRouting(clients), t, current.msg).raised)
    /\ current' = NoEntry
    /\ UNCHANGED <<srv_is_running, message_handlers, message_queue, connState, connId,
                   connects, arrivals, dropped>>
    /\ UNCHANGED notBroker

NextBroker ==
    \/ Start
    \/ \E c \in Conn, t \in Time : Connect(c, t)
    \/ \E c \in Conn : CloseConn(c)
    \/ \E c \in Conn : HandlerExit(c)
    \/ \E c \in Conn : \E t \in Time : \E f \in InFrames(clients, arrivals + dropped + 1) :
            ProcessMessage(c, f, t)
    \/ Dequeue
    \/ \E t \in Time : Route(t)

(***************************************************************************)
(* MCPServer.send_message as an operation of the broker: any coroutine     *)
(* holding the server may call it, with any destination.                   *)
(***************************************************************************)
NoSend ==
    [n |-> 0, destination |-> NoneId, t |-> 0, nreg |-> 0, sends |-> <<>>,
     returned |-> NoneId]
SendDestinations(reg) ==
    {NoneId, Name(""), Name("planner_agent")} \cup {reg[i].id : i \in 1..Len(reg)}

\* await server.send_message("notice", data, destination)
SendMessageCall(t, destination) ==
    /\ srv_is_running
    /\ lastSend.n < MaxSends
    /\ LET st == ServerSendMessage(NewRouting(clients), t, "notice", Payload("w1"),
                                   destination, NoneId)
       IN  /\ clients' = st.clients
           /\ lastSend' = [n |-> lastSend.n + 1, destination |-> destination, t |-> t,
                           nreg |-> Len(clients),
                           sends |-> [i \in 1..Len(st.sends) |->
                                       [ws |-> st.sends[i].ws, ok |-> st.sends[i].ok,
                                        id |-> st.sends[i].frame.id,
                                        correlation_id |->
                                            st.sends[i].frame.correlation_id]],
                           returned |-> st.returned]
    /\ UNCHANGED <<srv_is_running, message_handlers, message_queue, connState, connId,
                   pc, current, connects, arrivals, dropped, trace, lastRoute>>
    /\ UNCHANGED <<clientVars, engineVars, coordVars, wireVars, initVars, stopVars>>

NextSend ==
    \/ Start
    \/ \E c \in Conn, t \in Time : Connect(c, t)
    \/ \E c \in Conn : CloseConn(c)
    \/ \E c \in Conn : HandlerExit(c)
    \/ \E t \in Time : \E d \in SendDestinations(clients) : SendMessageCall(t, d)

(***************************************************************************)
(* MCPServer.stop: is_running is cleared, then the registry is iterated    *)
(* with an await on each websocket's close(); while stop() is suspended    *)
(* the connection handlers run, and their finally pops registry entries.   *)
(***************************************************************************)
\* websocket.close()
WsClose(states, ws) == [states EXCEPT ![ws] = IF @ = "open" THEN "closed" ELSE @]

\* one step of `for client_id, websocket in self.clients.items()`: next() on the
\* iterator raises RuntimeError when the dict's size is not the one it was made for;
\* otherwise it yields the next entry, whose websocket is closed, or is exhausted and
\* self.clients.clear() follows
StopIterate(used, pos) ==
    IF Len(clients) # used
    THEN /\ stop_pc' = "raised"
         /\ UNCHANGED <<clients, connState, stop_pos, stop_closed>>
    ELSE IF pos < Len(clients)
    THEN /\ connState' = WsClose(connState, clients[pos + 1].ws)
         /\ stop_closed' = Append(stop_closed, clients[pos + 1].ws)
         /\ stop_pos' = pos + 1
         /\ stop_pc' = "closing"
         /\ UNCHANGED clients
    ELSE /\ clients' = <<>>
         /\ stop_pc' = "done"
         /\ UNCHANGED <<connState, stop_pos, stop_closed>>

\* MCPServer.stop, up to its first await
StopBegin ==
    /\ srv_is_running /\ stop_pc = "none"
    /\ srv_is_running' = FALSE
    /\ di_used' = Len(clients)
    /\ stop_registered' = {clients[i].ws : i \in 1..Len(clients)}
    /\ StopIterate(Len(clients), 0)
    /\ UNCHANGED <<message_handlers, message_queue, connId, pc, current, connects,
                   arrivals, dropped, trace, lastRoute>>
    /\ UNCHANGED <<clientVars, engineVars, coordVars, wireVars, sendVars, initVars>>

\* MCPServer.stop resumed after `await websocket.close()`
StopResumed ==
    /\ stop_pc = "closing"
    /\ StopIterate(di_used, stop_pos)
    /\ UNCHANGED <<srv_is_running, di_used, stop_registered>>
    /\ UNCHANGED <<message_handlers, message_queue, connId, pc, current, connects,
                   arrivals, dropped, trace, lastRoute>>
    /\ UNCHANGED <<clientVars, engineVars, coordVars, wireVars, sendVars, initVars>>

NextStop ==
    \/ Start
    \/ \E c \in Conn, t \in Time : Connect(c, t)
    \/ \E c \in Conn : CloseConn(c)
    \/ \E c \in Conn : HandlerExit(c)
    \/ StopBegin
    \/ StopResumed

(***************************************************************************)
(* Client transport (MCPClient).                                           *)
(***************************************************************************)
\* asyncio.wait_for(future, timeout=30.0), in clock ticks of 15 seconds
ResponseTimeout == 2

\* the types AgentManager._register_mcp_handlers registers on the client
ClientHandlerTypes == {"workflow_request", "task_execution", "alert", "event"}

NoFrame == Malformed
NoCall ==
    [id |-> NoneId, type |-> "none", wait |-> FALSE, state |-> "none", sent_at |-> 0,
     reply |-> NoFrame, result |-> NoFrame, value |-> "none"]

\* the message dict of MCPClient.send_message, as json.dumps puts it on the wire
ClientMessage(message_id, message_type, data, destination, t) ==
    [json |-> TRUE, keys |-> FrameKeys \ {"correlation_id"}, id |-> message_id,
     type |-> message_type, source |-> Name("client"), destination |-> destination,
     data |-> data, timestamp |-> IsoTime(t), correlation_id |-> NoneId]

PendingPop_Keep(pend, id) == pend
\* dict.pop(key, None)
PendingPop(pend, id) == [k \in DOMAIN pend \ {id} |-> pend[k]]
\* dict[key] = value
PendingPut(pend, id, fut) == [k \in DOMAIN pend \cup {id} |-> IF k = id THEN fut ELSE pend[k]]

\* future.set_result(data), data = json.loads(message): the whole parsed frame
SetResult(call, f) == [call EXCEPT !.state = "returned", !.reply = f, !.result = f]

\* response.get(key, "unknown") on what send_message returned
ResponseGet(response, key) == IF key \in response.keys THEN response[key] ELSE "unknown"

\* AgentManager.create_workflow / execute_task: the value returned to the caller once
\* send_message has returned `response`
CoordinatorReturn(message_type, response) ==
    CASE message_type = "workflow_request" -> ResponseGet(response, "workflow_id")
      [] message_type = "task_execution" -> ResponseGet(response, "task_id")
      [] OTHER -> "none"

OnTimeout_Keep(pend, id) == pend
\* send_message's except asyncio.TimeoutError: self.pending_messages.pop(message_id, None)
OnTimeout(pend, id) == PendingPop(pend, id)

\* MCPClient.connect
ClientConnect ==
    /\ websocket = "none"
    /\ websocket' = "open"
    /\ is_connected' = TRUE
    /\ UNCHANGED <<cli_handlers, pending_messages, calls, loop_time, inbound, lastInbound>>
    /\ UNCHANGED notClient

\* AgentManager._register_mcp_handlers: four MCPClient.register_handler calls
RegisterMcpHandlers ==
    /\ cli_handlers # ClientHandlerTypes
    /\ cli_handlers' = cli_handlers \cup ClientHandlerTypes
    /\ UNCHANGED <<is_connected, websocket, pending_messages, calls, loop_time, inbound,
                   lastInbound>>
    /\ UNCHANGED notClient

\* the loop's clock advances
ClientTick ==
    /\ loop_time < MaxLoopTime
    /\ loop_time' = loop_time + 1
    /\ UNCHANGED <<is_connected, websocket, cli_handlers, pending_messages, calls,
                   inbound, lastInbound>>
    /\ UNCHANGED notClient

\* the broker or the network closes the connection
ClientConnectionLost ==
    /\ websocket = "open"
    /\ websocket' = "closed"
    /\ UNCHANGED <<is_connected, cli_handlers, pending_messages, calls, loop_time,
                   inbound, lastInbound>>
    /\ UNCHANGED notClient

\* MCPClient._message_loop: ConnectionClosed ends the read loop
MessageLoopExit ==
    /\ websocket = "closed" /\ is_connected
    /\ is_connected' = FALSE
    /\ UNCHANGED <<websocket, cli_handlers, pending_messages, calls, loop_time, inbound,
                   lastInbound>>
    /\ UNCHANGED notClient

\* MCPClient.disconnect
Disconnect ==
    /\ websocket # "none" /\ is_connected
    /\ is_connected' = FALSE
    /\ websocket' = "closed"
    /\ UNCHANGED <<cli_handlers, pending_messages, calls, loop_time, inbound, lastInbound>>
    /\ UNCHANGED notClient

\* MCPClient.send_message, up to the await on the future
SendMessage(message_type, destination, wait_for_response) ==
    /\ Len(calls) < MaxCalls
    /\ LET message_id == GenMsgId(loop_time)
           call == [NoCall EXCEPT !.id = message_id, !.type = message_type,
                                  !.wait = wait_for_response, !.sent_at = loop_time]
       IN  IF ~is_connected
           THEN \* raise ConnectionError
                /\ calls' = Append(calls, [call EXCEPT !.state = "connection_error"])
                /\ UNCHANGED pending_messages
           ELSE /\ pending_messages' =
                      IF wait_for_response
                      THEN PendingPut(pending_messages, message_id, Len(calls) + 1)
                      ELSE pending_messages
                /\ calls' = Append(calls,
                      [call EXCEPT !.state =
                          IF websocket # "open" THEN "send_error"   \* send() raises
                          ELSE IF wait_for_response THEN "waiting" ELSE "done"])
    /\ UNCHANGED <<is_connected, websocket, cli_handlers, loop_time, inbound, lastInbound>>
    /\ UNCHANGED notClient

TimerDue_AtOnce(call, now) == TRUE
\* asyncio.wait_for(future, timeout=30.0): the call's own timer has run out
TimerDue(call, now) == now >= call.sent_at + ResponseTimeout

\* asyncio.wait_for: the timeout expires and the future is cancelled
TimerExpires(k) ==
    /\ calls[k].state = "waiting"
    /\ TimerDue(calls[k], loop_time)
    /\ calls' = [calls EXCEPT ![k].state = "cancelled"]
    /\ UNCHANGED <<is_connected, websocket, cli_handlers, pending_messages, loop_time,
                   inbound, lastInbound>>
    /\ UNCHANGED notClient

\* send_message: except asyncio.TimeoutError: pop the entry, raise TimeoutError
TimeoutRaised(k) ==
    /\ calls[k].state = "cancelled"
    /\ pending_messages' = OnTimeout(pending_messages, calls[k].id)
    /\ calls' = [calls EXCEPT ![k].state = "timeout"]
    /\ UNCHANGED <<is_connected, websocket, cli_handlers, loop_time, inbound, lastInbound>>
    /\ UNCHANGED notClient

\* MCPClient._process_message on one inbound frame; a registered handler is any
\* callable, and handler_raises says whether this invocation raises
ClientProcessMessage(f, handler_raises) ==
    /\ websocket = "open"
    /\ inbound < MaxInbound
    /\ inbound' = inbound + 1
    /\ LET late == \E k \in 1..Len(calls) : calls[k].state = "timeout" /\ calls[k].id = f.id
           seen(path) == [n |-> inbound + 1, id |-> f.id, type |-> f.type, late |-> late,
                          path |-> path]
       IN  IF ~f.json
           THEN \* json.JSONDecodeError, logged
                /\ lastInbound' = seen("invalid")
                /\ UNCHANGED <<pending_messages, calls>>
           ELSE IF f.id \in DOMAIN pending_messages
           THEN LET k == pending_messages[f.id]
                IN  /\ pending_messages' = PendingPop(pending_messages, f.id)
                    /\ IF calls[k].state = "waiting"
                       THEN /\ calls' = [calls EXCEPT ![k] =
                                   [SetResult(calls[k], f) EXCEPT
                                       !.value = CoordinatorReturn(calls[k].type, f)]]
                            /\ lastInbound' = seen("resolved")
                       ELSE IF calls[k].state = "send_error"
                       THEN \* the future of a send that raised: set, awaited by no one
                            /\ lastInbound' = seen("resolved")
                            /\ UNCHANGED calls
                       ELSE \* set_result on a done future: InvalidStateError, logged
                            /\ lastInbound' = seen("error")
                            /\ UNCHANGED calls
           ELSE /\ lastInbound' = seen(IF f.type \notin cli_handlers THEN "ignored"
                                        ELSE IF handler_raises
                                        THEN "handler_error"   \* except Exception, logged
                                        ELSE "handler")
                /\ UNCHANGED <<pending_messages, calls>>
    /\ UNCHANGED <<is_connected, websocket, cli_handlers, loop_time>>
    /\ UNCHANGED notClient

\* the frames the broker may deliver to this client
ReplyFrame(message_id, message_type) ==
    [json |-> TRUE, keys |-> WireKeys, id |-> message_id, type |-> message_type,
     source |-> ClientId(2, 0), destination |-> NoneId, data |-> Payload("w1"),
     timestamp |-> IsoTime(0), correlation_id |-> NoneId]
\* what the coordinator and the agents send through the client: create_workflow,
\* execute_task, and a send that waits for no reply
ClientSends ==
    {<<"workflow_request", Name("planner_agent"), TRUE>>,
     <<"task_execution", Name("executor_agent"), TRUE>>,
     <<"status", NoneId, FALSE>>}
InboundFrames ==
    {Malformed} \cup
    {ReplyFrame(id, ty) : id \in {GenMsgId(t) : t \in 0..MaxLoopTime},
                          ty \in {"workflow_request", "reply"}}

NextClient ==
    \/ ClientConnect
    \/ RegisterMcpHandlers
    \/ ClientTick
    \/ ClientConnectionLost
    \/ MessageLoopExit
    \/ Disconnect
    \/ \E snd \in ClientSends : SendMessage(snd[1], snd[2], snd[3])
    \/ \E k \in 1..Len(calls) : TimerExpires(k)
    \/ \E k \in 1..Len(calls) : TimeoutRaised(k)
    \/ \E f \in InboundFrames, handler_raises \in BOOLEAN :
            ClientProcessMessage(f, handler_raises)

(***************************************************************************)
(* Execution engine (ExecutorAgent.execute_workflow).                      *)
(***************************************************************************)
\* Settings.executor_agent_retry_count
executor_agent_retry_count == 3

TaskId(n) == <<"T", n>>
\* the task lists an execution is given: T1..Tn, and one naming a task twice
Plans == {[p \in 1..n |-> TaskId(p)] : n \in 0..MaxTasks} \cup {<<TaskId(1), TaskId(1)>>}

\* a task result: the JSON object the agent printed, with the keys it holds
Result(keys, status, error, retry_count) ==
    [keys |-> keys, status |-> status, error |-> error, retry_count |-> retry_count]
NoResult == Result({}, "none", "none", 0)
ResultKeys == {"status", "error", "retry_count"}
\* what agent_executor.ainvoke may print: a result object, or no JSON at all
Unparseable == Result({}, "unparseable", "none", 0)
AgentOutputs ==
    {Result(ResultKeys, "success", "none", 0), Result(ResultKeys, "retry", "none", 0),
     Result({"status"}, "failed", "none", 0), Result({"retry_count"}, "none", "none", 0),
     Unparseable}
    \cup {Result(ResultKeys, "failed", "boom", r) : r \in {0, 1, executor_agent_retry_count}}

\* dict.get(key, default)
Get(d, key, default) == IF key \in d.keys THEN d[key] ELSE default

\* ExecutorAgent._execute_single_task: json.loads raising is caught
ExecuteSingleTask(out) ==
    IF out = Unparseable THEN Result(ResultKeys, "failed", "exception", 0) ELSE out

\* the status an attempt is remembered by
StatusOf(result) == Get(result, "status", "missing")

Pow2(n) == IF n = 0 THEN 1 ELSE IF n = 1 THEN 2 ELSE IF n = 2 THEN 4 ELSE 8

NoReport ==
    [status |-> "none", total_tasks |-> 0, completed_tasks |-> 0, failed_tasks |-> 0,
     success_rate |-> [num |-> 0, den |-> 1], progress |-> [num |-> 0, den |-> 1],
     completed |-> <<>>, failed |-> <<>>]

GenerateExecutionReport_OfAttempted(status, tasks, completed, failed, prog) ==
    [status |-> status, total_tasks |-> Len(tasks), completed_tasks |-> Len(completed),
     failed_tasks |-> Len(failed),
     success_rate |-> [num |-> Len(completed) * 100, den |-> Len(completed) + Len(failed) + 1],
     progress |-> prog, completed |-> completed, failed |-> <<>>]
\* ExecutorAgent._generate_execution_report
GenerateExecutionReport(status, tasks, completed, failed, prog) ==
    [status |-> status, total_tasks |-> Len(tasks), completed_tasks |-> Len(completed),
     failed_tasks |-> Len(failed),
     success_rate |-> IF tasks # <<>> THEN [num |-> Len(completed) * 100, den |-> Len(tasks)]
                      ELSE [num |-> 0, den |-> 1],
     progress |-> prog, completed |-> completed, failed |-> failed]

Progress_Done(i, total_tasks) == [num |-> (i + 1) * 100, den |-> total_tasks]
\* execution_context["progress"] = (i / total_tasks) * 100, kept as a fraction
Progress(i, total_tasks) == [num |-> i * 100, den |-> total_tasks]

RecordFailure_Twice(failed, task_id, result) ==
    failed \o <<[task_id |-> task_id, error |-> "none", retry_count |-> 0],
                [task_id |-> task_id, error |-> "none", retry_count |-> 0]>>
RecordFailure_Skip(failed, task_id, result) == failed
\* execution_context["failed_tasks"].append({...})
RecordFailure(failed, task_id, result) ==
    Append(failed, [task_id |-> task_id, error |-> Get(result, "error", "none"),
                    retry_count |-> Get(result, "retry_count", 0)])

ExceptClause_Silent(e) == [status |-> "running", error |-> "none", end_time |-> FALSE]
\* execute_workflow's except Exception as e: status, error and end_time are written,
\* then the exception is raised again
ExceptClause(e) == [status |-> "failed", error |-> e, end_time |-> TRUE]

\* execute_workflow, up to the loop over the tasks
ExecuteWorkflow(tasks) ==
    /\ epc = "idle"
    /\ exec_status' = "running"
    /\ plan' = tasks
    /\ completed_tasks' = <<>>
    /\ failed_tasks' = <<>>
    /\ progress' = [num |-> 0, den |-> 1]
    /\ task_index' = 0
    /\ attempts' = [p \in 1..Len(tasks) |-> <<>>]
    /\ epc' = "loop"
    /\ UNCHANGED <<task_result, report, backoffs, exec_error, end_time>>
    /\ UNCHANGED notEngine

\* one pass of the loop body, up to the await in _handle_task_failure
ExecuteTask(out) ==
    /\ epc = "loop" /\ task_index < Len(plan)
    /\ LET task_id == plan[task_index + 1]
           result == ExecuteSingleTask(out)
       IN  /\ progress' = Progress(task_index, Len(plan))
           /\ attempts' = [attempts EXCEPT ![task_index + 1] = Append(@, StatusOf(result))]
           /\ IF "status" \notin result.keys
              THEN \* task_result["status"]: KeyError, caught by execute_workflow
                   /\ exec_status' = ExceptClause("KeyError").status
                   /\ exec_error' = ExceptClause("KeyError").error
                   /\ end_time' = ExceptClause("KeyError").end_time
                   /\ epc' = "raised"
                   /\ UNCHANGED <<completed_tasks, failed_tasks, task_result, task_index>>
              ELSE IF result.status = "success"
              THEN /\ completed_tasks' = Append(completed_tasks, task_id)
                   /\ task_index' = task_index + 1
                   /\ UNCHANGED <<exec_status, epc, failed_tasks, task_result,
                                  exec_error, end_time>>
              ELSE /\ failed_tasks' = RecordFailure(failed_tasks, task_id, result)
                   /\ task_result' = result
                   /\ epc' = "failure"
                   /\ UNCHANGED <<exec_status, completed_tasks, task_index,
                                  exec_error, end_time>>
    /\ UNCHANGED <<plan, report, backoffs>>
    /\ UNCHANGED notEngine

\* _handle_task_failure, up to the backoff sleep
HandleTaskFailure ==
    /\ epc = "failure"
    /\ LET retry_count == Get(task_result, "retry_count", 0)
       IN  IF retry_count < executor_agent_retry_count
           THEN /\ backoffs' = Append(backoffs, [pos |-> task_index + 1,
                                                 delay |-> Pow2(retry_count)])
                /\ epc' = "retry"
                /\ UNCHANGED task_index
           ELSE \* max retries exceeded: back in the loop, at the next task
                /\ epc' = "loop"
                /\ task_index' = task_index + 1
                /\ UNCHANGED backoffs
    /\ UNCHANGED <<exec_status, plan, completed_tasks, failed_tasks, task_result,
                   progress, report, attempts, exec_error, end_time>>
    /\ UNCHANGED notEngine

\* _handle_task_failure after the sleep: one re-execution, whose result is only
\* reported in the returned string
RetryTask(out) ==
    /\ epc = "retry"
    /\ LET retry_result == [ExecuteSingleTask(out) EXCEPT
                               !.keys = @ \cup {"retry_count"},
                               !.retry_count = Get(task_result, "retry_count", 0) + 1]
       IN  /\ attempts' = [attempts EXCEPT ![task_index + 1] = Append(@, StatusOf(retry_result))]
           /\ IF "status" \notin retry_result.keys
              THEN \* retry_result['status']: KeyError, caught by execute_workflow
                   /\ exec_status' = ExceptClause("KeyError").status
                   /\ exec_error' = ExceptClause("KeyError").error
                   /\ end_time' = ExceptClause("KeyError").end_time
                   /\ epc' = "raised"
                   /\ UNCHANGED task_index
              ELSE /\ epc' = "loop"
                   /\ task_index' = task_index + 1
                   /\ UNCHANGED <<exec_status, exec_error, end_time>>
    /\ UNCHANGED <<plan, completed_tasks, failed_tasks, task_result, progress, report,
                   backoffs>>
    /\ UNCHANGED notEngine

\* execute_workflow after the loop, up to the await on the store
CompleteExecution ==
    /\ epc = "loop" /\ task_index = Len(plan)
    /\ exec_status' = "completed"
    /\ progress' = [num |-> 100, den |-> 1]
    /\ report' = GenerateExecutionReport("completed", plan, completed_tasks, failed_tasks,
                                         [num |-> 100, den |-> 1])
    /\ epc' = "store"
    /\ end_time' = TRUE
    /\ UNCHANGED <<plan, task_index, completed_tasks, failed_tasks, task_result, attempts,
                   backoffs, exec_error>>
    /\ UNCHANGED notEngine

\* get_redis() and setex: the report is returned, or the error is caught and re-raised
StoreResults(ok) ==
    /\ epc = "store"
    /\ IF ok
       THEN epc' = "returned" /\ UNCHANGED <<exec_status, exec_error, end_time>>
       ELSE /\ epc' = "raised"
            /\ exec_status' = ExceptClause("store").status
            /\ exec_error' = ExceptClause("store").error
            /\ end_time' = ExceptClause("store").end_time
    /\ UNCHANGED <<plan, task_index, completed_tasks, failed_tasks, task_result, progress,
                   report, attempts, backoffs>>
    /\ UNCHANGED notEngine

NextEngine ==
    \/ \E tasks \in Plans : ExecuteWorkflow(tasks)
    \/ \E out \in AgentOutputs : ExecuteTask(out)
    \/ HandleTaskFailure
    \/ \E out \in AgentOutputs : RetryTask(out)
    \/ CompleteExecution
    \/ \E ok \in BOOLEAN : StoreResults(ok)

(***************************************************************************)
(* Coordinator (AgentManager.start_all_agents / stop_all_agents) and the   *)
(* observer's start_monitoring / stop_monitoring.  The four monitoring     *)
(* tasks one start_monitoring creates are one group.                       *)
(***************************************************************************)
Finished(g) == montasks[g] \in {"done", "cancelled"}

AlreadyRunning_Never(is_running) == FALSE
\* start_all_agents: if self.is_running: return
AlreadyRunning(is_running) == is_running
\* stop_all_agents: if not self.is_running: return
NotRunning(is_running) == ~is_running

CoordCall(op, cpc, noop, mon, gen) ==
    [op |-> op, pc |-> cpc, noop |-> noop, mon |-> mon, gen |-> gen]

\* ObserverAgent.start_monitoring, up to the await on gather: the observer afterwards
ObserverStart ==
    IF obs_is_running
    THEN [is_running |-> TRUE, tasks |-> montasks, held |-> monitoring_tasks,
          pc |-> "returned", gen |-> 0]
    ELSE [is_running |-> TRUE, tasks |-> Append(montasks, "running"),
          held |-> Len(montasks) + 1, pc |-> "gathering", gen |-> Len(montasks) + 1]

\* AgentManager.__init__ of backend.services or of backend.agents
NewAgentManager(v) ==
    /\ mgr_variant = "none"
    /\ mgr_variant' = v
    /\ UNCHANGED <<mgr_is_running, obs_is_running, montasks, monitoring_tasks, monitors,
                   coordCalls, obs_calls>>
    /\ UNCHANGED notCoord

\* start_all_agents, up to its first suspension
StartAllAgents ==
    /\ mgr_variant # "none" /\ Len(coordCalls) < MaxOps
    /\ IF AlreadyRunning(mgr_is_running)
       THEN /\ coordCalls' = Append(coordCalls, CoordCall("start", "returned", TRUE, 0, 0))
            /\ UNCHANGED <<mgr_is_running, obs_is_running, montasks, monitoring_tasks,
                           monitors, obs_calls>>
       ELSE /\ obs_calls' = [obs_calls EXCEPT !.start = @ + 1]
            /\ IF mgr_variant = "services"
               THEN \* await self.observer_agent.start_monitoring()
                    LET o == ObserverStart
                    IN  /\ mgr_is_running' = TRUE
                        /\ obs_is_running' = o.is_running
                        /\ montasks' = o.tasks
                        /\ monitoring_tasks' = o.held
                        /\ monitors' = Append(monitors, [pc |-> o.pc, gen |-> o.gen])
                        /\ coordCalls' = Append(coordCalls,
                              CoordCall("start",
                                        IF o.pc = "returned" THEN "returned" ELSE "awaiting",
                                        FALSE, Len(monitors) + 1, 0))
               ELSE \* create_task(start_monitoring()), then the executor has no
                    \* start_execution_loop: AttributeError, is_running = False, raise
                    /\ mgr_is_running' = FALSE
                    /\ monitors' = Append(monitors, [pc |-> "scheduled", gen |-> 0])
                    /\ coordCalls' = Append(coordCalls,
                                            CoordCall("start", "raised", FALSE, 0, 0))
                    /\ UNCHANGED <<obs_is_running, montasks, monitoring_tasks>>
    /\ UNCHANGED mgr_variant
    /\ UNCHANGED notCoord

\* a start_monitoring that was made a task begins to run
MonitorBegin(m) ==
    /\ monitors[m].pc = "scheduled"
    /\ LET o == ObserverStart
       IN  /\ obs_is_running' = o.is_running
           /\ montasks' = o.tasks
           /\ monitoring_tasks' = o.held
           /\ monitors' = [monitors EXCEPT ![m] = [pc |-> o.pc, gen |-> o.gen]]
    /\ UNCHANGED <<mgr_variant, mgr_is_running, coordCalls, obs_calls>>
    /\ UNCHANGED notCoord

\* the monitoring loops of a group end: cancelled, or `while self.is_running` is over
TaskGroupEnds(g) ==
    /\ \/ montasks[g] = "cancelling" /\ montasks' = [montasks EXCEPT ![g] = "cancelled"]
       \/ montasks[g] = "running" /\ ~obs_is_running
             /\ montasks' = [montasks EXCEPT ![g] = "done"]
    /\ UNCHANGED <<mgr_variant, mgr_is_running, obs_is_running, monitoring_tasks, monitors,
                   coordCalls, obs_calls>>
    /\ UNCHANGED notCoord

\* start_monitoring after gather: finally self.is_running = False; a cancelled task
\* makes gather raise CancelledError, which no `except Exception` catches
MonitorResume(m) ==
    /\ monitors[m].pc = "gathering" /\ Finished(monitors[m].gen)
    /\ LET how == IF montasks[monitors[m].gen] = "cancelled" THEN "cancelled" ELSE "returned"
       IN  /\ monitors' = [monitors EXCEPT ![m].pc = how]
           /\ coordCalls' = [k \in 1..Len(coordCalls) |->
                               IF coordCalls[k].pc = "awaiting" /\ coordCalls[k].mon = m
                               THEN [coordCalls[k] EXCEPT !.pc = how]
                               ELSE coordCalls[k]]
    /\ obs_is_running' = FALSE
    /\ UNCHANGED <<mgr_variant, mgr_is_running, montasks, monitoring_tasks, obs_calls>>
    /\ UNCHANGED notCoord

\* stop_all_agents, up to the await on gather in stop_monitoring
StopAllAgents ==
    /\ mgr_variant # "none" /\ Len(coordCalls) < MaxOps
    /\ IF NotRunning(mgr_is_running)
       THEN /\ coordCalls' = Append(coordCalls, CoordCall("stop", "returned", TRUE, 0, 0))
            /\ UNCHANGED <<mgr_is_running, obs_is_running, montasks, obs_calls>>
       ELSE /\ mgr_is_running' = FALSE
            /\ obs_calls' = [obs_calls EXCEPT !.stop = @ + 1]
            /\ obs_is_running' = FALSE
            /\ montasks' = [g \in 1..Len(montasks) |->
                              IF g = monitoring_tasks /\ montasks[g] = "running"
                              THEN "cancelling" ELSE montasks[g]]
            /\ coordCalls' = Append(coordCalls,
                                    CoordCall("stop", "stopping", FALSE, 0, monitoring_tasks))
    /\ UNCHANGED <<mgr_variant, monitoring_tasks, monitors>>
    /\ UNCHANGED notCoord

\* stop_monitoring after gather: self.monitoring_tasks.clear(); stop_all_agents returns
\* (in backend.agents after the AttributeError of stop_execution_loop is caught)
StopResume(k) ==
    /\ coordCalls[k].pc = "stopping"
    /\ IF coordCalls[k].gen = 0 THEN TRUE ELSE Finished(coordCalls[k].gen)
    /\ monitoring_tasks' = 0
    /\ coordCalls' = [coordCalls EXCEPT ![k].pc = "returned"]
    /\ UNCHANGED <<mgr_variant, mgr_is_running, obs_is_running, montasks, monitors,
                   obs_calls>>
    /\ UNCHANGED notCoord

\* self.agents, in the order initialize_agents initializes them
InitOrder == <<"observer", "planner", "executor">>
AgentNames == {InitOrder[i] : i \in 1..Len(InitOrder)}
Position(agent) == CHOOSE i \in 1..Len(InitOrder) : InitOrder[i] = agent

InvokedUpTo_All(fail) == InitOrder
\* the initialize() calls initialize_agents makes when that of `fail` raises
\* ("none": no initialize raises)
InvokedUpTo(fail) ==
    IF fail = "none" THEN InitOrder ELSE SubSeq(InitOrder, 1, Position(fail))

NoStatus == [n |-> 0, system_status |-> "none", raising |-> {}, agents |-> <<>>]

\* AgentManager.initialize_agents: no initialize() suspends, so the call is one step
InitializeAgents(fail) ==
    /\ mgr_variant # "none" /\ Len(initCalls) < MaxInits
    /\ LET invoked == InvokedUpTo(fail)
           done == {invoked[i] : i \in 1..Len(invoked)} \ {fail}
           registers == fail = "none" /\ mgr_variant = "services"
       IN  /\ agent_initialized' = agent_initialized \cup done
           \* ExecutorAgent.initialize ends with create_task(self._execution_loop())
           /\ exec_loops' = IF "executor" \in done THEN exec_loops + 1 ELSE exec_loops
           /\ cli_handlers' = IF registers THEN cli_handlers \cup ClientHandlerTypes
                               ELSE cli_handlers
           /\ initCalls' = Append(initCalls,
                                  [invoked |-> invoked, fail |-> fail,
                                   raised |-> fail # "none", registered |-> registers])
    /\ UNCHANGED <<lastStatus, coordVars, brokerVars, engineVars, wireVars, sendVars,
                   stopVars>>
    /\ UNCHANGED <<is_connected, websocket, pending_messages, calls, loop_time, inbound,
                   lastInbound>>

\* agent.get_status()
AgentStatus(agent) ==
    IF agent = "observer" THEN (IF obs_is_running THEN "running" ELSE "stopped")
    ELSE "active"

CollectStatus_Abort(raising) ==
    LET first == CHOOSE i \in 1..Len(InitOrder) :
                    /\ InitOrder[i] \in raising
                    /\ \A j \in 1..(i - 1) : InitOrder[j] \notin raising
    IN  IF raising = {} THEN [a \in AgentNames |-> AgentStatus(a)]
        ELSE [a \in {InitOrder[j] : j \in 1..(first - 1)} |-> AgentStatus(a)]

\* get_system_status: the loop over self.agents, with its try / except Exception
CollectStatus(raising) ==
    [a \in AgentNames |-> IF a \in raising THEN "error" ELSE AgentStatus(a)]

\* AgentManager.get_system_status; `raising` are the agents whose get_status raises
GetSystemStatus(raising) ==
    /\ mgr_variant # "none" /\ lastStatus.n < MaxStatus
    /\ lastStatus' = [n |-> lastStatus.n + 1,
                      system_status |-> IF mgr_is_running THEN "operational" ELSE "stopped",
                      raising |-> raising,
                      agents |-> CollectStatus(raising)]
    /\ UNCHANGED <<agent_initialized, exec_loops, initCalls>>
    /\ UNCHANGED <<coordVars, brokerVars, clientVars, engineVars, wireVars, sendVars,
                   stopVars>>

NextCoord ==
    \/ \E v \in {"services", "agents"} : NewAgentManager(v)
    \/ \E fail \in AgentNames \cup {"none"} : InitializeAgents(fail)
    \/ \E raising \in SUBSET AgentNames : GetSystemStatus(raising)
    \/ StartAllAgents
    \/ \E m \in 1..Len(monitors) : MonitorBegin(m)
    \/ \E g \in 1..Len(montasks) : TaskGroupEnds(g)
    \/ \E m \in 1..Len(monitors) : MonitorResume(m)
    \/ StopAllAgents
    \/ \E k \in 1..Len(coordCalls) : StopResume(k)

(***************************************************************************)
(* The wire format, there and back: _send_to_client's json.dumps, then     *)
(* _process_message's json.loads and MCPMessage(...).                      *)
(***************************************************************************)
\* the envelopes the broker may hold: received from a client, or its own
Envelopes ==
    [id : {<<"m", 1>>, GenMsgId(0)}, type : {"status", "plan_workflow"},
     source : {ClientId(1, 0), Name("mcp_server")},
     destination : {NoneId, ClientId(2, 0), Name("planner_agent")},
     data : {EmptyDict, Payload("w1")}, timestamp : {IsoTime(0)},
     correlation_id : {NoneId, <<"k", 1>>}]

\* json.dumps of the envelope, as _send_to_client writes it
WireSerialize ==
    /\ wire_pc = "envelope"
    /\ wire_frame' = Serialize(wire_env)
    /\ wire_pc' = "frame"
    /\ UNCHANGED <<wire_env, wire_back>>
    /\ UNCHANGED notWire

\* _process_message on that frame, read from the connection of client_id at time t
WireParse(client_id, t) ==
    /\ wire_pc = "frame"
    /\ wire_back' = ParseFrame(client_id, wire_frame, t)
    /\ wire_pc' = "parsed"
    /\ UNCHANGED <<wire_env, wire_frame>>
    /\ UNCHANGED notWire

NextWire ==
    \/ WireSerialize
    \/ \E client_id \in {ClientId(1, 0), ClientId(2, 0)} : \E t \in Time : WireParse(client_id, t)

(***************************************************************************)
(* The state after construction.                                           *)
(***************************************************************************)
Constructed ==
    \* MCPServer.__init__, then AgentMessageHandlers(server) in main()
    /\ srv_is_running = FALSE
    /\ clients = <<>>
    /\ message_handlers = HandlerTypes
    /\ message_queue = <<>>
    /\ connState = [c \in Conn |-> "free"]
    /\ connId = [c \in Conn |-> NoneId]
    /\ pc = "stopped"
    /\ current = NoEntry
    /\ connects = 0
    /\ arrivals = 0
    /\ dropped = 0
    /\ lastSend = NoSend
    /\ stop_pc = "none"
    /\ di_used = 0
    /\ stop_pos = 0
    /\ stop_registered = {}
    /\ stop_closed = <<>>
    /\ exec_error = "none"
    /\ end_time = FALSE
    /\ agent_initialized = {}
    /\ exec_loops = 0
    /\ initCalls = <<>>
    /\ lastStatus = NoStatus
    /\ trace = <<>>
    /\ lastRoute = NoRoute
    \* MCPClient.__init__
    /\ is_connected = FALSE
    /\ websocket = "none"
    /\ cli_handlers = {}
    /\ pending_messages = <<>>
    /\ calls = <<>>
    /\ loop_time = 0
    /\ inbound = 0
    /\ lastInbound = NoInbound
    \* no execute_workflow call yet
    /\ exec_status = "none"
    /\ plan = <<>>
    /\ task_index = 0
    /\ epc = "idle"
    /\ completed_tasks = <<>>
    /\ failed_tasks = <<>>
    /\ task_result = NoResult
    /\ progress = [num |-> 0, den |-> 1]
    /\ report = NoReport
    /\ attempts = <<>>
    /\ backoffs = <<>>
    \* no AgentManager yet
    /\ mgr_variant = "none"
    /\ mgr_is_running = FALSE
    /\ obs_is_running = FALSE
    /\ montasks = <<>>
    /\ monitoring_tasks = 0
    /\ monitors = <<>>
    /\ coordCalls = <<>>
    /\ obs_calls = [start |-> 0, stop |-> 0]

\* no envelope under way
Init ==
    /\ Constructed
    /\ wire_env = NoMsg
    /\ wire_frame = Malformed
    /\ wire_back = NoMsg
    /\ wire_pc = "none"

\* an envelope of the broker's, about to be sent
InitWire ==
    /\ Constructed
    /\ wire_env \in Envelopes
    /\ wire_frame = Malformed
    /\ wire_back = NoMsg
    /\ wire_pc = "envelope"

(***************************************************************************)
(* Specifications.                                                         *)
(***************************************************************************)
SpecBroker == Init /\ [][NextBroker]_vars

SpecClient == Init /\ [][NextClient]_vars

SpecEngine == Init /\ [][NextEngine]_vars

SpecCoord == Init /\ [][NextCoord]_vars

SpecWire == InitWire /\ [][NextWire]_vars
SpecSend == Init /\ [][NextSend]_vars
SpecStop == Init /\ [][NextStop]_vars

\* The consumer is a task of the event loop: whenever it can take an envelope from the
\* queue, or go on routing the one it holds, the loop eventually runs it.
NextBrokerLive ==
    \/ Start
    \/ \E c \in 1..LiveConns, t \in Time : Connect(c, t)
    \/ \E c \in 1..LiveConns : CloseConn(c)
    \/ \E c \in 1..LiveConns : HandlerExit(c)
    \/ \E c \in 1..LiveConns : \E t \in Time :
            \E f \in InFrames(clients, arrivals + dropped + 1) : ProcessMessage(c, f, t)
    \/ Dequeue
    \/ \E t \in Time : Route(t)

SpecBrokerLive ==
    /\ Init /\ [][NextBrokerLive]_vars
    /\ WF_vars(Dequeue)
    /\ WF_vars(\E t \in Time : Route(t))

\* The broker and a client transport side by side.  The two share no variable, so
\* each behaves beside the other as it does alone: the broker is followed while the
\* transport is as constructed, the transport while the broker has not been started.
TransportAsConstructed ==
    /\ websocket = "none" /\ ~is_connected /\ cli_handlers = {}
    /\ calls = <<>> /\ loop_time = 0 /\ inbound = 0
NextDispatch ==
    \/ TransportAsConstructed /\ NextBroker
    \/ ~srv_is_running /\ NextClient
SpecDispatch == Init /\ [][NextDispatch]_vars

(***************************************************************************)
(* Broker properties.                                                      *)
(***************************************************************************)

\* a step of the consumer that completes the routing of `current`
RouteStep == pc = "routing" /\ pc' = "idle"
Unhandled(message) == message.type \notin message_handlers
\* the websockets of the registry entries other than `source`, in registry order
OthersWs(reg, source) ==
    LET others == SelectSeq(reg, LAMBDA e : e.id # source)
    IN  [i \in 1..Len(others) |-> others[i].ws]
SendsWs(route) == [i \in 1..Len(route.sends) |-> route.sends[i].ws]

\* C1: default routing, unicast: an envelope with no handler for its type whose
\* destination is a key of the connected-client registry is sent to exactly that
\* client's websocket, once, and to no other.
C1_Unicast ==
    [][(RouteStep /\ Unhandled(current.msg)
            /\ InClients(clients, current.msg.destination))
        => /\ lastRoute'.n = current.n
           /\ SendsWs(lastRoute') = <<ClientsGet(clients, current.msg.destination)>>
           /\ lastRoute'.sends[1].id = current.msg.id]_vars

\* C1 witness: an unhandled envelope was unicast while three clients were registered
C1_Witness ==
    /\ lastRoute.n > 0 /\ lastRoute.type \notin message_handlers
    /\ lastRoute.unicast /\ lastRoute.nreg = 3 /\ Len(lastRoute.sends) = 1

\* C2: default routing, broadcast: an envelope with no destination and no handler is
\* sent exactly once to every client registered at the time of routing other than its
\* source, and never to its source.
C2_Broadcast ==
    [][(RouteStep /\ Unhandled(current.msg) /\ current.msg.destination = NoneId)
        => /\ SendsWs(lastRoute') = OthersWs(clients, current.msg.source)
           /\ \A i \in 1..Len(lastRoute'.sends) :
                /\ lastRoute'.sends[i].id = current.msg.id
                /\ InClients(clients, current.msg.source)
                     => lastRoute'.sends[i].ws # ClientsGet(clients, current.msg.source)
           /\ \A i, j \in 1..Len(lastRoute'.sends) :
                lastRoute'.sends[i].ws = lastRoute'.sends[j].ws => i = j]_vars

\* C2 witness: a broadcast reached two clients while three, the source among them,
\* were registered
C2_Witness ==
    /\ lastRoute.n > 0 /\ lastRoute.type \notin message_handlers
    /\ ~lastRoute.addressed /\ lastRoute.nreg = 3 /\ Len(lastRoute.sends) = 2

\* C3: global FIFO: envelopes are dequeued in the order they were enqueued, and the
\* processing of one completes before the processing of the next begins.
C3_Fifo ==
    \A i \in 1..Len(trace) :
        trace[i] = IF i % 2 = 1 THEN <<"begin", (i + 1) \div 2>> ELSE <<"end", i \div 2>>

\* C3 witness: envelope 1 is being processed while envelope 2, from another client,
\* waits in the queue
C3_Witness ==
    /\ pc = "routing" /\ current.n = 1
    /\ Len(message_queue) = 1 /\ message_queue[1].n = 2
    /\ message_queue[1].msg.source # current.msg.source

\* C10: a coordinator request (workflow_request, task_execution) routed while another
\* client is connected is delivered to a client carrying the request's id.
C10_RequestDelivered ==
    [][(RouteStep /\ current.msg.type \in {"workflow_request", "task_execution"}
            /\ \E i \in 1..Len(clients) :
                  clients[i].id # current.msg.source /\ connState[clients[i].ws] = "open")
        => \E i \in 1..Len(lastRoute'.sends) :
              lastRoute'.sends[i].ok /\ lastRoute'.sends[i].id = current.msg.id]_vars

(***************************************************************************)
(* Client transport properties.                                            *)
(***************************************************************************)

\* C4: send_message with wait_for_response: a call resolved by an inbound envelope
\* carrying the request's id returns the value of that envelope's data field.
C4_ReturnsData ==
    \A k \in 1..Len(calls) :
        calls[k].state = "returned" => calls[k].result = calls[k].reply.data

\* a step of the read loop on a frame carrying the id of a call that has timed out
LateStep == inbound' = inbound + 1 /\ lastInbound'.late
TimedOut(k) == calls[k].state = "timeout"

\* C5 as stated: after a timeout the pending entry is absent, and a later inbound
\* envelope carrying that id resolves nothing and is handed to no handler.
C5_LateDropped ==
    [][LateStep => calls' = calls /\ lastInbound'.path = "ignored"]_vars

\* C5: a call that got no matching reply fails with a timeout error no sooner than
\* ResponseTimeout after it was sent, and its id is then absent from the pending table;
\* a later inbound envelope carrying that id resolves nothing and is treated as any
\* envelope matching no pending entry: handed to the handler registered for its type,
\* ignored when there is none.
C5_Timeout ==
    /\ [](\A k \in 1..Len(calls) : TimedOut(k) =>
            /\ calls[k].id \notin DOMAIN pending_messages
            /\ loop_time >= calls[k].sent_at + ResponseTimeout)
    /\ [][LateStep =>
            /\ calls' = calls
            /\ pending_messages' = pending_messages
            /\ lastInbound'.path \in
                 IF lastInbound'.type \in cli_handlers THEN {"handler", "handler_error"}
                 ELSE {"ignored"}]_vars

\* C5 witness: a frame carrying the id of a timed-out call has arrived, with no handler
\* registered for its type
C5_Witness ==
    /\ lastInbound.late /\ lastInbound.path = "ignored"
    /\ \E k \in 1..Len(calls) : TimedOut(k) /\ calls[k].id = lastInbound.id

(***************************************************************************)
(* Execution engine properties.                                            *)
(***************************************************************************)
InSeq(x, seq) == \E i \in 1..Len(seq) : seq[i] = x
FailedEntries(task_id) == {i \in 1..Len(failed_tasks) : failed_tasks[i].task_id = task_id}
\* the task at position p is named once in the plan
NamedOnce(p) == \A q \in 1..Len(plan) : plan[q] = plan[p] => q = p
\* the task at position p failed at first and succeeded on a retry
RetrySucceeded(p) ==
    /\ Len(attempts[p]) >= 2
    /\ attempts[p][Len(attempts[p])] = "success"
    /\ \A a \in 1..(Len(attempts[p]) - 1) : attempts[p][a] # "success"
\* the task at position p failed on every attempt
AlwaysFailed(p) ==
    /\ Len(attempts[p]) >= 1
    /\ \A a \in 1..Len(attempts[p]) : attempts[p][a] # "success"

\* C6: a task that fails at first and succeeds on a retry is, in the final execution
\* context, listed in completed and has no entry in failed.
C6_RetrySuccess ==
    exec_status = "completed" =>
        \A p \in 1..Len(plan) : (NamedOnce(p) /\ RetrySucceeded(p)) =>
            /\ InSeq(plan[p], completed_tasks)
            /\ FailedEntries(plan[p]) = {}

\* C7: a task that fails on every attempt is executed 1 + max_retries times, recorded in
\* failed once with retry_count = max_retries, and is absent from completed.
C7_RetriesExhausted ==
    exec_status = "completed" =>
        \A p \in 1..Len(plan) : (NamedOnce(p) /\ AlwaysFailed(p)) =>
            /\ Len(attempts[p]) = 1 + executor_agent_retry_count
            /\ Cardinality(FailedEntries(plan[p])) = 1
            /\ \A i \in FailedEntries(plan[p]) :
                  failed_tasks[i].retry_count = executor_agent_retry_count
            /\ ~InSeq(plan[p], completed_tasks)

\* C30: default routing, fallback: an envelope with no handler for its type whose
\* destination is set but is not a key of the connected-client registry at the time of
\* routing is sent once to every registered client other than its source, in registry
\* order, and not to its source.
C30_Fallback ==
    [][(RouteStep /\ Unhandled(current.msg)
            /\ Truthy(current.msg.destination)
            /\ ~InClients(clients, current.msg.destination))
        => /\ lastRoute'.default_calls = 1
           /\ SendsWs(lastRoute') = OthersWs(clients, current.msg.source)
           /\ \A i \in 1..Len(lastRoute'.sends) :
                /\ lastRoute'.sends[i].id = current.msg.id
                /\ InClients(clients, current.msg.source)
                     => lastRoute'.sends[i].ws # ClientsGet(clients, current.msg.source)]_vars

\* C30 witness: an unhandled envelope addressed to a client that is not registered was
\* sent to the two other clients while three, the source among them, were registered
C30_Witness ==
    /\ lastRoute.n > 0 /\ lastRoute.type \notin message_handlers
    /\ lastRoute.addressed /\ ~lastRoute.unicast
    /\ lastRoute.nreg = 3 /\ Len(lastRoute.sends) = 2

\* the task at position q has an outcome in the context's completed or failed list
Recorded(q) == InSeq(plan[q], completed_tasks) \/ FailedEntries(plan[q]) # {}
\* a step in which the task at position p is executed once more
AttemptStep(p) ==
    /\ p \in DOMAIN attempts /\ p \in DOMAIN attempts'
    /\ Len(attempts'[p]) = Len(attempts[p]) + 1
\* the backoff waits made for the task at position q
BackoffsOf(b, q) == SelectSeq(b, LAMBDA e : e.pos = q)

\* C25: within one execution the tasks run strictly one after the other: an attempt of a
\* task starts only when every earlier task has been attempted and has its outcome in
\* completed or failed, a task's first attempt starts from the loop (no wait or retry is
\* pending), and once a later task has been attempted an earlier task gets no further
\* attempt and no further backoff wait.
C25_Sequential ==
    [][\A p \in 1..Len(plan) :
          /\ AttemptStep(p) =>
                /\ \A q \in 1..(p - 1) : attempts[q] # <<>> /\ Recorded(q)
                /\ \A q \in (DOMAIN attempts) \ {p} : attempts'[q] = attempts[q]
                /\ attempts[p] = <<>> => epc = "loop"
          /\ (p \in DOMAIN attempts /\ p \in DOMAIN attempts' /\ attempts[p] # <<>>) =>
                \A q \in 1..(p - 1) :
                    /\ attempts'[q] = attempts[q]
                    /\ BackoffsOf(backoffs', q) = BackoffsOf(backoffs, q)]_vars

C25_Witness ==
    /\ Len(plan) >= 2
    /\ Len(attempts[1]) >= 2
    /\ BackoffsOf(backoffs, 1) # <<>>
    /\ FailedEntries(plan[1]) # {}
    /\ attempts[2] # <<>>

\* an exception left the per-task path: a result without "status" was indexed
PerTaskEscape == \E p \in DOMAIN attempts : InSeq("missing", attempts[p])
\* execute_workflow has returned or raised
Ended == epc \in {"returned", "raised"}

\* C26: a failed task does not halt the workflow: when no exception has left the per-task
\* path, an execution that has ended has attempted every task of the list at least once
\* and has status completed.
C26_FailedDoesNotHalt ==
    (Ended /\ ~PerTaskEscape) =>
        /\ \A p \in 1..Len(plan) : attempts[p] # <<>>
        /\ exec_status = "completed"

\* the number of backoff waits made for the same task before the i-th wait
RetriesMade(i) == Cardinality({j \in 1..(i - 1) : backoffs[j].pos = backoffs[i].pos})

\* C27: the wait before a retry is 2^k, k being the number of retries the engine has
\* already made for that task (1, 2, 4, ...), and a task has at most max_retries waits.
C27_Backoff ==
    \A i \in 1..Len(backoffs) :
        /\ backoffs[i].delay = Pow2(RetriesMade(i))
        /\ RetriesMade(i) < executor_agent_retry_count

\* C28: an exception that leaves the per-task path (or the store of the results) ends the
\* execution: it is raised to the caller with status failed, the error message and an end
\* time written to the context; no task after the one that raised has been attempted, and
\* none is attempted afterwards.
C28_FatalError ==
    /\ [](epc = "raised" =>
            /\ exec_status = "failed"
            /\ exec_error # "none"
            /\ end_time
            /\ \A p \in (task_index + 2)..Len(plan) : attempts[p] = <<>>)
    /\ [][(PerTaskEscape' /\ ~PerTaskEscape) => epc' = "raised"]_vars
    /\ [][epc = "raised" => (attempts' = attempts /\ epc' = "raised")]_vars

C28_Witness ==
    /\ epc = "raised"
    /\ PerTaskEscape
    /\ exec_error = "KeyError"
    /\ task_index + 1 < Len(plan)
    /\ completed_tasks # <<>>

\* C29: the report's success_rate is completed_count / total_tasks * 100 when the task
\* list is not empty and 0 when it is empty, and the report's completed and failed lists
\* are the execution context's.
C29_SuccessRate ==
    report.status # "none" =>
        /\ plan # <<>> => /\ report.success_rate.den > 0
                          /\ report.success_rate.num * Len(plan) =
                                 Len(completed_tasks) * 100 * report.success_rate.den
        /\ plan = <<>> => report.success_rate.num = 0 /\ report.success_rate.den > 0
        /\ report.completed = completed_tasks
        /\ report.failed = failed_tasks

C29_Witness ==
    /\ report.status = "completed"
    /\ Len(plan) = 3
    /\ Len(report.completed) = 2
    /\ Len(report.failed) = 1

(***************************************************************************)
(* Coordinator properties.                                                 *)
(***************************************************************************)
\* a step in which start_all_agents or stop_all_agents is called
CallStep == Len(coordCalls') = Len(coordCalls) + 1
NewCall == coordCalls'[Len(coordCalls')]
AgentsUntouched == UNCHANGED <<obs_is_running, montasks, monitoring_tasks, monitors, obs_calls>>

\* C8: start_all_agents while is_running, and stop_all_agents while not is_running,
\* return without error, leave is_running as it was and start or stop no agent; after
\* every stop_all_agents call, the second of two in a row included, is_running is false.
C8_Idempotent ==
    [][CallStep =>
        /\ (NewCall.op = "start" /\ mgr_is_running) =>
              NewCall.pc = "returned" /\ mgr_is_running' /\ AgentsUntouched
        /\ (NewCall.op = "stop" /\ ~mgr_is_running) =>
              NewCall.pc = "returned" /\ ~mgr_is_running' /\ AgentsUntouched
        /\ NewCall.op = "stop" => ~mgr_is_running']_vars

\* C8 witness: start_all_agents was called while running, and stop_all_agents twice in
\* a row, the second time while stopped
C8_Witness ==
    /\ \E i \in 1..Len(coordCalls) : coordCalls[i].op = "start" /\ coordCalls[i].noop
    /\ \E j \in 1..(Len(coordCalls) - 1) :
          /\ coordCalls[j].op = "stop" /\ ~coordCalls[j].noop
          /\ coordCalls[j + 1].op = "stop" /\ coordCalls[j + 1].noop

(***************************************************************************)
(* Wire format properties.                                                 *)
(***************************************************************************)
\* C9: an envelope serialized to the wire format and parsed back equals the original in
\* every field: id, type, source, destination, data, timestamp, correlation_id.
C9_RoundTrip == wire_pc = "parsed" => wire_back = wire_env

\* C11: create_workflow returns the workflow id, and execute_task the task id, carried
\* in the payload of the reply to its request.
C11_ReturnsId ==
    \A k \in 1..Len(calls) : calls[k].state = "returned" =>
        /\ (calls[k].type = "workflow_request" /\ calls[k].reply.data.workflow_id # "absent")
              => calls[k].value = calls[k].reply.data.workflow_id
        /\ (calls[k].type = "task_execution" /\ calls[k].reply.data.task_id # "absent")
              => calls[k].value = calls[k].reply.data.task_id

\* C12: the broker never changes an envelope's id or correlation_id while routing:
\* every envelope a client is sent by default routing carries the id and the
\* correlation_id of the frame the broker received for it.
C12_IdsKept ==
    [][(RouteStep /\ Unhandled(current.msg))
        => \A i \in 1..Len(lastRoute'.sends) :
              /\ lastRoute'.sends[i].id = current.frame_id
              /\ lastRoute'.sends[i].correlation_id = current.frame_correlation_id]_vars

\* C12 witness: default routing sent an envelope that carries a correlation_id
C12_Witness ==
    /\ lastRoute.n > 0 /\ lastRoute.type \notin message_handlers
    /\ \E i \in 1..Len(lastRoute.sends) :
          /\ lastRoute.sends[i].ok
          /\ lastRoute.sends[i].id = <<"m", 2>>
          /\ lastRoute.sends[i].correlation_id = <<"k", 2>>

\* C13: client identity uniqueness: across any sequence of connects and disconnects,
\* the connected clients hold pairwise different identities and each one's registry
\* entry is its own, so a connect never overwrites another client's entry and a
\* disconnect never removes another client's entry.
C13_UniqueIds ==
    \A c, d \in Conn :
        (connState[c] = "open" /\ connState[d] = "open" /\ c # d)
            => /\ connId[c] # connId[d]
               /\ InClients(clients, connId[c]) => ClientsGet(clients, connId[c]) = c

\* the frame an entry of the queue was parsed from was well-formed JSON
WellFormed(e) == e.frame_id # Malformed.id
DropStep == dropped' = dropped + 1

\* C14: a malformed frame is dropped without being enqueued, the connection it came
\* on stays open and registered, and the connection's read loop can still enqueue a
\* valid frame afterwards.
C14_MalformedDropped ==
    /\ [](\A i \in 1..Len(message_queue) : WellFormed(message_queue[i]))
    /\ [](current.n > 0 => WellFormed(current))
    /\ [][DropStep => UNCHANGED <<message_queue, arrivals, clients, connState, connId,
                                  srv_is_running, pc>>]_vars
    /\ [](\A c \in Conn :
            (dropped > 0 /\ connState[c] = "open" /\ arrivals + dropped < MaxMsgs)
                => ENABLED ProcessMessage(c, ClientFrame(arrivals + dropped + 1,
                                                         "status", NoneId), 0))

\* C14 witness: the only connection ever made sent a malformed frame first, and the
\* frame it sent second is being routed
C14_Witness ==
    /\ connects = 1 /\ dropped = 1 /\ pc = "routing"
    /\ current.n = 1 /\ current.frame_id = <<"m", 2>>
    /\ current.msg.source = connId[1] /\ connState[1] = "open"
    /\ InClients(clients, connId[1])

\* the registry entries whose send failed in the routing step just made
FailedWs(route) == {route.sends[i].ws : i \in {j \in 1..Len(route.sends) : ~route.sends[j].ok}}

\* C16: self-healing broadcast: when a send to one client fails during a broadcast,
\* that client is removed from the registry, the clients whose send succeeded stay,
\* and every client other than the source is still sent the envelope.
C16_SelfHealing ==
    [][(RouteStep /\ Unhandled(current.msg)
            /\ ~InClients(clients, current.msg.destination))
        => /\ SendsWs(lastRoute') = OthersWs(clients, current.msg.source)
           /\ clients' = SelectSeq(clients, LAMBDA e : e.ws \notin FailedWs(lastRoute'))]_vars

\* C16 witness: in a broadcast the first send failed and the second succeeded, and
\* only the failed client left the registry
C16_Witness ==
    /\ lastRoute.n > 0 /\ lastRoute.type \notin message_handlers /\ ~lastRoute.unicast
    /\ lastRoute.nreg = 3 /\ Len(lastRoute.sends) = 2
    /\ ~lastRoute.sends[1].ok /\ lastRoute.sends[2].ok
    /\ pc = "idle" /\ trace[Len(trace)] = <<"end", lastRoute.n>>
    /\ Len(clients) = 2

SendStep == lastSend'.n = lastSend.n + 1
\* the websockets default routing sends to, for an envelope and a registry
DefaultTargets(reg, message) ==
    LET st == DefaultMessageHandler(NewRouting(reg), message)
    IN  {st.sends[i].ws : i \in 1..Len(st.sends)}

\* C17: send_message routes by the rule of default routing: for every destination
\* and registry, the clients it sends the envelope to are those default routing
\* chooses for an envelope with that destination, and it returns the id of the
\* envelope it built.
C17_SameRule ==
    [][SendStep =>
        LET message == BrokerEnvelope(lastSend'.t, "notice", Payload("w1"),
                                      lastSend'.destination, NoneId)
        IN  /\ {lastSend'.sends[i].ws : i \in 1..Len(lastSend'.sends)}
                  = DefaultTargets(clients, message)
            /\ lastSend'.returned = message.id
            /\ \A i \in 1..Len(lastSend'.sends) :
                  lastSend'.sends[i].id = lastSend'.returned]_vars

\* a step of the client's read loop on one frame
InboundStep == inbound' = inbound + 1

\* C15: when a handler is registered for an envelope's type the broker invokes it
\* exactly once and applies no default routing; when the handler raises, nothing is
\* sent, the envelope is not put back on the queue, and the consumer returns to the
\* queue with the broker still running.  An exception raised by a handler of the
\* client leaves the client's connection and its read loop as they were.
C15_HandlerDispatch ==
    /\ [][(RouteStep /\ ~Unhandled(current.msg))
            => /\ lastRoute'.handler_calls = 1 /\ lastRoute'.default_calls = 0
               /\ message_queue' = message_queue
               /\ srv_is_running' /\ pc' = "idle"
               /\ trace' = Append(trace, <<"end", current.n>>)
               /\ lastRoute'.raised => (lastRoute'.sends = <<>> /\ clients' = clients)]_vars
    /\ [][(InboundStep /\ lastInbound'.path = "handler_error")
            => UNCHANGED <<is_connected, websocket, cli_handlers, pending_messages,
                           calls>>]_vars

\* C15 witness: the handler of the first envelope raised, and the consumer has taken
\* the second envelope from the queue
C15_Witness ==
    /\ lastRoute.n = 1 /\ lastRoute.raised /\ lastRoute.handler_calls = 1
    /\ pc = "routing" /\ current.n = 2
    /\ trace = <<<<"begin", 1>>, <<"end", 1>>, <<"begin", 2>>>>

\* C18: for a send that waits for a reply the pending entry is in the table from the
\* moment the envelope is transmitted, and an envelope carrying the id that arrives
\* while the call waits resolves the call.
C18_RegisteredBeforeSend ==
    /\ [](\A k \in 1..Len(calls) :
            calls[k].state = "waiting" => calls[k].id \in DOMAIN pending_messages)
    /\ [][\A k \in 1..Len(calls) :
            (InboundStep /\ lastInbound'.path # "invalid"
                /\ calls[k].state = "waiting" /\ lastInbound'.id = calls[k].id)
            => calls'[k].state = "returned"]_vars

\* C19: each inbound envelope takes exactly one of three paths: it resolves the pending
\* entry with its id, or it is passed to the handler registered for its type, or, with
\* neither, it is ignored without error.
C19_ExclusiveDispatch ==
    [][(InboundStep /\ lastInbound'.path # "invalid")
        => lastInbound'.path =
             IF lastInbound'.id \in DOMAIN pending_messages THEN "resolved"
             ELSE IF lastInbound'.type \notin cli_handlers THEN "ignored"
             ELSE IF lastInbound'.path = "handler_error" THEN "handler_error"
             ELSE "handler"]_vars

\* a step of the read loop that resolves call k
Resolves(k) == calls[k].state = "waiting" /\ calls'[k].state = "returned"

\* C20: a pending entry is resolved at most once, by the first inbound envelope whose
\* id matches: the envelope that finds the entry resolves its call with itself and
\* removes the entry, and the result of a resolved call never changes afterwards.
C20_ResolvedOnce ==
    /\ [][\A k \in 1..Len(calls) :
            /\ calls[k].state = "returned" => calls'[k] = calls[k]
            /\ Resolves(k) =>
                 /\ InboundStep /\ lastInbound'.path = "resolved"
                 /\ calls[k].id \in DOMAIN pending_messages
                 /\ pending_messages[calls[k].id] = k
                 /\ calls'[k].reply.id = calls[k].id
                 /\ lastInbound'.id = calls[k].id
                 /\ calls[k].id \notin DOMAIN pending_messages']_vars
    /\ [][(InboundStep /\ lastInbound'.path # "invalid"
            /\ lastInbound'.id \in DOMAIN pending_messages)
            => /\ lastInbound'.id \notin DOMAIN pending_messages'
               /\ calls[pending_messages[lastInbound'.id]].state = "waiting"
                    => Resolves(pending_messages[lastInbound'.id])]_vars

\* C20 witness: a call was resolved by a first envelope, and a second envelope with
\* the same id and another type has been processed without touching the result
C20_Witness ==
    /\ lastInbound.n = 2 /\ lastInbound.path \in {"handler", "ignored"}
    /\ \E k \in 1..Len(calls) :
          /\ calls[k].state = "returned" /\ calls[k].id = lastInbound.id
          /\ calls[k].reply.type # lastInbound.type
          /\ calls[k].result = calls[k].reply

\* a step that ends the connection: disconnect(), or the read loop ending
DisconnectStep ==
    \/ is_connected /\ ~is_connected'
    \/ websocket = "open" /\ websocket' = "closed"

\* C21: a disconnect neither cancels nor fails a pending wait-for-reply call: the call
\* stays pending, and it fails with a timeout only once its own timeout has elapsed.
C21_NoEagerCancel ==
    /\ [][DisconnectStep => (calls' = calls /\ pending_messages' = pending_messages)]_vars
    /\ [][\A k \in 1..Len(calls) :
            (calls[k].state = "waiting" /\ calls'[k].state # "waiting")
                => \/ calls'[k].state = "returned" /\ InboundStep
                   \/ /\ calls'[k].state = "cancelled"
                      /\ loop_time >= calls[k].sent_at + ResponseTimeout]_vars
    /\ [][\A k \in 1..Len(calls) :
            calls[k].state = "cancelled" => calls'[k].state \in {"cancelled", "timeout"}]_vars

\* C21 witness: the client has disconnected, a call sent before is still pending with
\* its entry in the table, and its timeout has not elapsed yet
C21_Witness ==
    /\ ~is_connected /\ websocket = "closed"
    /\ \E k \in 1..Len(calls) :
          /\ calls[k].state = "waiting" /\ calls[k].wait
          /\ calls[k].id \in DOMAIN pending_messages
          /\ loop_time < calls[k].sent_at + ResponseTimeout

InitStep == Len(initCalls') = Len(initCalls) + 1
IsPrefix(a, b) == Len(a) <= Len(b) /\ \A i \in 1..Len(a) : a[i] = b[i]

\* C22: initialize_agents initializes observer, planner and executor in that order;
\* when an initialization fails the call fails, no later agent is initialized, no
\* handler is registered on the client transport, and is_running is not set.
C22_InitializeAll ==
    [][InitStep =>
        LET c == initCalls'[Len(initCalls')]
        IN  /\ IsPrefix(c.invoked, InitOrder)
            /\ c.fail = "none" =>
                  /\ c.invoked = InitOrder /\ ~c.raised
                  /\ agent_initialized' = AgentNames
            /\ c.fail # "none" =>
                  /\ c.raised
                  /\ c.invoked[Len(c.invoked)] = c.fail
                  /\ \A a \in AgentNames :
                        Position(a) >= Position(c.fail)
                            => (a \in agent_initialized' <=> a \in agent_initialized)
                  /\ cli_handlers' = cli_handlers
            /\ mgr_is_running' = mgr_is_running]_vars

\* C22 witness: the only initialize_agents call failed at the planner: the observer
\* is initialized, planner and executor are not, no handler is registered and
\* is_running is false
C22_Witness ==
    /\ Len(initCalls) = 1 /\ initCalls[1].fail = "planner" /\ initCalls[1].raised
    /\ initCalls[1].invoked = <<"observer", "planner">>
    /\ agent_initialized = {"observer"}
    /\ cli_handlers = {} /\ ~mgr_is_running /\ mgr_variant = "services"

\* C23: no agent is started (is_running true, a monitoring loop or an execution loop
\* running) before the initialization of all agents has succeeded.
C23_InitBeforeStart ==
    (\/ mgr_is_running
     \/ obs_is_running
     \/ \E g \in 1..Len(montasks) : montasks[g] = "running"
     \/ exec_loops > 0)
        => /\ agent_initialized = AgentNames
           /\ \E i \in 1..Len(initCalls) : initCalls[i].fail = "none"

StatusStep == lastStatus'.n = lastStatus.n + 1

\* C24: get_system_status returns an entry for every owned agent: an agent whose
\* status query raises gets an error entry, every other agent its status, and the
\* call returns whichever agents raise.
C24_StatusTolerant ==
    [][StatusStep =>
        /\ DOMAIN lastStatus'.agents = AgentNames
        /\ \A a \in AgentNames :
              lastStatus'.agents[a] =
                  IF a \in lastStatus'.raising THEN "error" ELSE AgentStatus(a)]_vars

\* C24 witness: the planner's status query raised while the observer was running: the
\* report has the planner's error entry and the status of the observer and executor
C24_Witness ==
    /\ lastStatus.n > 0 /\ lastStatus.raising = {"planner"}
    /\ DOMAIN lastStatus.agents = AgentNames
    /\ lastStatus.agents["planner"] = "error"
    /\ lastStatus.agents["observer"] = "running"
    /\ lastStatus.agents["executor"] = "active"

(***************************************************************************)
(* Client transport: timeouts, ids and transport errors.                   *)
(***************************************************************************)
\* the pending table holds the entry call k made
HoldsEntryOf(pend, k) == calls[k].id \in DOMAIN pend /\ pend[calls[k].id] = k

\* C31: the timeout of a waiting call and the removal of its pending entry are one
\* step: in no state has a call's wait timed out (its future cancelled by wait_for, or
\* TimeoutError raised) while the table still holds its entry, and no inbound envelope
\* is matched against the entry of a call that has timed out.
C31_AtomicTimeout ==
    /\ [](\A k \in 1..Len(calls) :
            calls[k].state \in {"cancelled", "timeout"} => ~HoldsEntryOf(pending_messages, k))
    /\ [][\A k \in 1..Len(calls) :
            (InboundStep /\ calls[k].state \in {"cancelled", "timeout"})
            => ~(lastInbound'.path \in {"resolved", "error"}
                    /\ HoldsEntryOf(pending_messages, k)
                    /\ lastInbound'.id = calls[k].id)]_vars

\* a step in which send_message is called
ClientSendStep == Len(calls') = Len(calls) + 1
NewClientCall == calls'[Len(calls')]

\* C32: a send that waits gets an id no pending entry has: it overwrites no entry of an
\* earlier unresolved call, and the timeout of one call leaves the entries of the other
\* waiting calls in the table.
C32_FreshIds ==
    /\ [][(ClientSendStep /\ NewClientCall.wait /\ NewClientCall.state = "waiting")
            => NewClientCall.id \notin DOMAIN pending_messages]_vars
    /\ [][\A k \in 1..Len(calls) :
            (calls[k].state = "cancelled" /\ Len(calls') = Len(calls)
                /\ calls'[k].state = "timeout")
            => \A j \in 1..Len(calls) :
                  (j # k /\ HoldsEntryOf(pending_messages, j))
                  => HoldsEntryOf(pending_messages', j)]_vars

\* C37: a send_message that fails because the client is not connected, or because the
\* transmission fails, leaves the pending table as it was before the call.
C37_TransportErrorLocal ==
    [][(ClientSendStep /\ NewClientCall.state \in {"connection_error", "send_error"})
        => pending_messages' = pending_messages]_vars

(***************************************************************************)
(* Execution engine: progress, status and the two outcome lists.           *)
(***************************************************************************)
\* fractions a and b, compared by cross-multiplication
FracLeq(a, b) == a.num * b.den <= b.num * a.den
FracEq(a, b) == a.num * b.den = b.num * a.den

\* C33: progress stays within 0..100, is (index / total_tasks) * 100 from the moment the
\* task at position index is taken up until the loop moves on, never decreases, and is
\* exactly 100 once the status is completed, for the empty task list too.
C33_Progress ==
    /\ [](/\ progress.den > 0 /\ progress.num >= 0
          /\ FracLeq(progress, [num |-> 100, den |-> 1]))
    /\ [](epc \in {"failure", "retry"} =>
              FracEq(progress, [num |-> task_index * 100, den |-> Len(plan)]))
    /\ [][\A p \in 1..Len(plan) : (AttemptStep(p) /\ attempts[p] = <<>>) =>
              FracEq(progress', [num |-> (p - 1) * 100, den |-> Len(plan)])]_vars
    /\ [][FracLeq(progress, progress')]_vars
    /\ [](exec_status = "completed" => progress = [num |-> 100, den |-> 1])

\* C33 witness: the third of three tasks is waiting for its retry, at 200/3 percent
C33_Witness ==
    /\ Len(plan) = 3 /\ epc = "retry" /\ task_index = 2
    /\ progress = [num |-> 200, den |-> 3]

\* C34: the status is terminal once it has left running: completed and failed are never
\* left, so a context that has reached completed never becomes failed.
C34_TerminalStatus ==
    [][(exec_status \in {"completed", "failed"}) => (exec_status' = exec_status)]_vars

\* the task ids in the failed list
FailedIds == {failed_tasks[i].task_id : i \in 1..Len(failed_tasks)}
SeqSet(seq) == {seq[i] : i \in 1..Len(seq)}
NoRepeat(seq) == \A i, j \in 1..Len(seq) : seq[i] = seq[j] => i = j
\* the two outcome lists are disjoint and without repetition, and partition the plan's
\* ids once the status is completed
OutcomeListsSound ==
    /\ SeqSet(completed_tasks) \cap FailedIds = {}
    /\ NoRepeat(completed_tasks)
    /\ NoRepeat([i \in 1..Len(failed_tasks) |-> failed_tasks[i].task_id])
    /\ exec_status = "completed" => SeqSet(completed_tasks) \cup FailedIds = SeqSet(plan)

\* C35 as stated: in every state of an execution no task id is in both the completed
\* and the failed list, none is twice in either, and with status completed the two
\* lists hold exactly the ids of the workflow's tasks.
C35_ListsAnyPlan == OutcomeListsSound

\* C35, for a task list that names no task id twice: no task id is in both the
\* completed and the failed list, none is twice in either, and with status completed
\* the two lists hold exactly the ids of the workflow's tasks.
C35_Lists == NoRepeat(plan) => OutcomeListsSound

\* C35 witness: three distinct tasks, one succeeded at once, one failed and succeeded on
\* its retry, one failed; the execution is completed
C35_Witness ==
    /\ exec_status = "completed" /\ Len(plan) = 3 /\ NoRepeat(plan)
    /\ completed_tasks # <<>> /\ Len(failed_tasks) = 2
    /\ \E p \in 1..Len(plan) : RetrySucceeded(p)

(***************************************************************************)
(* Broker stop().                                                          *)
(***************************************************************************)
\* C38: whatever the connection handlers do meanwhile, stop() raises no error, and once
\* it has returned every websocket that was registered when it was called has been
\* closed by it, the registry is empty and is_running is false.
C38_StopCompletes ==
    /\ stop_pc # "raised"
    /\ stop_pc = "done" =>
          /\ clients = <<>>
          /\ ~srv_is_running
          /\ stop_registered \subseteq {stop_closed[i] : i \in 1..Len(stop_closed)}

(***************************************************************************)
(* Broker liveness.                                                        *)
(***************************************************************************)
Queued(n) == \E i \in 1..Len(message_queue) : message_queue[i].n = n
Processed(n) == \E j \in 1..Len(trace) : trace[j] = <<"end", n>>

\* C36: while the broker is running, every envelope put on the queue is eventually
\* taken from it and its routing (handler or default) completed, also when the routing
\* of an earlier envelope raised: the consumer never stops.
C36_Liveness ==
    /\ \A n \in 1..MaxMsgs : (srv_is_running /\ Queued(n)) ~> Processed(n)
    /\ [](srv_is_running => pc \in {"idle", "routing"})

\* C36 witness: the routing of the first envelope raised, and the second envelope is on
\* the queue with the consumer idle
C36_Witness ==
    /\ srv_is_running /\ pc = "idle"
    /\ lastRoute.n = 1 /\ lastRoute.raised
    /\ Queued(2)

(***************************************************************************)
(* Coordinator: the return of start_all_agents.                            *)
(***************************************************************************)
\* C39: a start_all_agents call that starts the agents does not wait for the observer's
\* monitoring loops to end, and whenever it has returned and the coordinator's
\* is_running is true, the observer's is_running is true.
C39_StartReturns ==
    \A k \in 1..Len(coordCalls) :
        (coordCalls[k].op = "start" /\ ~coordCalls[k].noop) =>
            /\ coordCalls[k].pc # "awaiting"
            /\ (coordCalls[k].pc = "returned" /\ mgr_is_running) => obs_is_running

====
